---- MODULE Spec2Model ----
(***************************************************************************)
(* Minetrack: the time-series store (document and tabular backends), the   *)
(* record-refresh cycle, the graph-window loader, the retention pruner and *)
(* the browser client's socket manager, as state machines.                 *)
(*                                                                         *)
(*   SpecSocket   the client: SocketManager and App                        *)
(*   SpecSocketLive  the client with its reconnect timer firing (fair)     *)
(*   SpecRecords  insertPing / updatePlayerCountRecord / loadRecords       *)
(*   SpecPrune    initOldPingsDelete / deleteOldPings                      *)
(*   SpecGraph    loadGraphPoints / getRecentPings                         *)
(*   SpecRetention  one refresh cycle with the pruner running              *)
(*   SpecCycles   two refresh cycles in flight, store calls failing        *)
(*   SpecRefresh  one refresh cycle whose store calls all succeed (fair)   *)
(*   SpecSchema   ensureIndexes                                            *)
(***************************************************************************)
EXTENDS Integers, Sequences, FiniteSets, TLC

VARIABLES
  \* ---- client (socket.js, App) ----
  appStarted,                 \* App.init() has run
  webSocket,                  \* this._webSocket: "undefined" | "connecting" | "open"
  reconnectDelayBase,         \* this._reconnectDelayBase
  reconnectDelaySeconds,      \* this._reconnectDelaySeconds
  reconnectInterval,          \* the setInterval handle of scheduleReconnect is live
  hasRequestedHistoryGraph,   \* this._hasRequestedHistoryGraph
  publicConfig,               \* App.publicConfig
  pageReady,                  \* App.setPageReady
  taskIds,                    \* number of live entries of App._taskIds
  activeTasks,                \* setInterval timers started by initTasks and not yet cleared
  clearedTasks,               \* timers cleared by the latest handleDisconnect
  serverRegistrations,        \* server ids with a ServerRegistration (client)
  lastUpdated,                \* server ids the last updateServers applied handlePing to
  lastBatch,                  \* history: payload.updates.length of that updateServers
  plotBuilt,                  \* graphDisplayManager.buildPlotInstance has run
  sentOnConnection,           \* history: 'requestHistoryGraph' tokens sent since the last close
  sentEarlier,                \* history: a connection that has closed had sent the token
  closesSinceReset,           \* history: closes since the attempt counter was last 0
  liveSockets,                \* history: WebSocket objects created and not yet closed
  activeTimers,               \* history: setInterval timers of scheduleReconnect not yet cleared
  attemptsBeforeOpen,         \* history: the attempt counter when the last onopen ran
  countdownStart,             \* history: the delay the last close scheduled
  countdownTicks,             \* history: timer ticks since the last close
  \* ---- store (Database) ----
  backend,                    \* "document" | "tabular"
  now,                        \* TimeTracker.getEpochMillis()
  pings,                      \* the pings collection / table, in natural order
  records,                    \* the players_record collection / table, in natural order
  lastOp,                     \* history: the last store call that completed
  \* ---- retention pruner ----
  cleanupInterval,            \* config.oldPingsCleanup.interval
  initPc,                     \* initOldPingsDelete: "idle" | "startup" | "done" | "failed"
  periodicScheduled,          \* the setInterval of initOldPingsDelete is live
  scheduledInterval,          \* its period (0 while none is scheduled)
  pendingDeletes,             \* deleteOldPings passes whose delete has not run yet
  readyCalls,                 \* times initOldPingsDelete invoked its callback
  periodicFailed,             \* history: a periodic deleteOldPings pass has failed
  \* ---- record refresh ----
  lrPc,                       \* loadRecords, per cycle: where it is suspended
  lrIdx,                      \* loadRecords, per cycle: index of the registration in hand
  lrLegacy,                   \* loadRecords, per cycle: legacyRecord
  lrQueue,                    \* loadRecords (tabular), per cycle: queries not yet answered
  completedTasks,             \* loadRecords, per cycle: completedTasks
  callbackCalls,              \* loadRecords, per cycle: times callback() ran
  numTracked,                 \* this._app.serverRegistrations.length
  lrProcessed,                \* history, per cycle: registrations whose recordData it set
  lrError,                    \* history, per cycle: the store call that failed, and how
  recordData,                 \* serverRegistration.recordData, per registration
  maxInserted,                \* history: per ip, the highest playerCount ever inserted
  firstComputed,              \* history: per ip, the first Record a cycle computed
  \* ---- graph window ----
  lgPc,                       \* loadGraphPoints: "idle" | "query" | "done" | "failed"
  lgStartTime,                \* loadGraphPoints: startTime
  lgEndTime,                  \* loadGraphPoints: endTime
  graphPoints,                \* per registration: the last loadGraphPoints(startTime, ...) it received
  timeTrackerPoints,          \* the last timeTracker.loadGraphPoints(startTime, timestamps)
  lgCallbacks,                \* times loadGraphPoints invoked its callback
  \* ---- schema setup ----
  eiPc,                       \* ensureIndexes: "idle" | "running" | "done" | "rejected" | "uncaught"
  eiQueue,                    \* ensureIndexes: statements issued and not yet answered
  eiCompleted,                \* ensureIndexes: statements that completed without error
  eiLogged,                   \* ensureIndexes: statements whose failure was only logged
  eiRaised,                   \* ensureIndexes: the statement whose failure was thrown
  eiCallbacks,                \* ensureIndexes: times callback() ran in this call
  eiCalls                     \* ensureIndexes calls made

socketVars == <<appStarted, webSocket, reconnectDelayBase, reconnectDelaySeconds,
                reconnectInterval, hasRequestedHistoryGraph, publicConfig, pageReady,
                taskIds, activeTasks, clearedTasks, serverRegistrations, lastUpdated, lastBatch, plotBuilt,
                sentOnConnection, sentEarlier, closesSinceReset, liveSockets,
                activeTimers, attemptsBeforeOpen, countdownStart, countdownTicks>>

connectionHistory == <<liveSockets, activeTimers, attemptsBeforeOpen, countdownStart,
                       countdownTicks>>

dbVars == <<backend, now, pings, records, lastOp>>

pruneVars == <<cleanupInterval, initPc, periodicScheduled, scheduledInterval,
               pendingDeletes, readyCalls, periodicFailed>>

cycleVars == <<lrPc, lrIdx, lrLegacy, lrQueue, completedTasks, callbackCalls,
               numTracked, lrProcessed, lrError, recordData, maxInserted, firstComputed>>

graphVars == <<lgPc, lgStartTime, lgEndTime, graphPoints, timeTrackerPoints, lgCallbacks>>

schemaVars == <<eiPc, eiQueue, eiCompleted, eiLogged, eiRaised, eiCallbacks, eiCalls>>

storeVars == <<dbVars, pruneVars, cycleVars, graphVars, schemaVars>>

vars == <<socketVars, storeVars>>

Min(a, b) == IF a <= b THEN a ELSE b

(***************************************************************************)
(* Bounds of the model                                                     *)
(***************************************************************************)
MaxAttempts == 8        \* consecutive closes explored before the model stops closing
MaxTasks == 2           \* init messages explored per connection
NumServers == 2         \* servers of an init snapshot / entries of an updateServers batch

ServerIds == 0 .. (NumServers - 1)

\* payload.servers of an init: servers 0 .. k-1
ServerSnapshots == {0 .. (k - 1) : k \in 0 .. NumServers}

(***************************************************************************)
(* The client: SocketManager (socket.js) and App                           *)
(***************************************************************************)
UndefinedConfig == [defined |-> FALSE, isGraphVisible |-> FALSE]

Configs == {[defined |-> TRUE, isGraphVisible |-> g] : g \in BOOLEAN}

InitSocket ==
  /\ appStarted = FALSE
  /\ webSocket = "undefined"
  /\ reconnectDelayBase = 0
  /\ reconnectDelaySeconds = 0
  /\ reconnectInterval = FALSE
  /\ hasRequestedHistoryGraph = FALSE
  /\ publicConfig = UndefinedConfig
  /\ pageReady = FALSE
  /\ taskIds = 0
  /\ activeTasks = 0
  /\ clearedTasks = 0
  /\ serverRegistrations = {}
  /\ lastUpdated = {}
  /\ lastBatch = 0
  /\ plotBuilt = FALSE
  /\ sentOnConnection = 0
  /\ sentEarlier = FALSE
  /\ closesSinceReset = 0
  /\ liveSockets = 0
  /\ activeTimers = 0
  /\ attemptsBeforeOpen = 0
  /\ countdownStart = 0
  /\ countdownTicks = 0

\* reset(): the flag's value after a disconnect
reset(flag) == FALSE

\* Math.min(base * base, 30)
ReconnectDelayUnclamped(base) == base * base

ReconnectDelay(base) == Min(base * base, 30)

\* sendHistoryGraphRequest(): <<the flag afterwards, the tokens sent>>
sendHistoryGraphRequestUnguarded(flag) == <<TRUE, 1>>

sendHistoryGraphRequest(flag) == IF ~flag THEN <<TRUE, 1>> ELSE <<flag, 0>>

\* App.init(): createWebSocket()
AppInit ==
  /\ ~appStarted
  /\ appStarted' = TRUE
  /\ webSocket' = "connecting"
  /\ liveSockets' = liveSockets + 1
  /\ UNCHANGED <<activeTimers, attemptsBeforeOpen, countdownStart, countdownTicks>>
  /\ UNCHANGED <<reconnectDelayBase, reconnectDelaySeconds, reconnectInterval,
                 hasRequestedHistoryGraph, publicConfig, pageReady, taskIds, activeTasks, clearedTasks,
                 serverRegistrations, lastUpdated, lastBatch, plotBuilt,
                 sentOnConnection,
                 sentEarlier, closesSinceReset>>
  /\ UNCHANGED storeVars

\* webSocket.onopen
OnOpenKeepsCounter ==
  /\ webSocket = "connecting"
  /\ webSocket' = "open"
  /\ closesSinceReset' = 0
  /\ attemptsBeforeOpen' = reconnectDelayBase
  /\ UNCHANGED <<liveSockets, activeTimers, countdownStart, countdownTicks>>
  /\ UNCHANGED <<appStarted, reconnectDelayBase, reconnectDelaySeconds, reconnectInterval,
                 hasRequestedHistoryGraph, publicConfig, pageReady, taskIds, activeTasks, clearedTasks,
                 serverRegistrations, lastUpdated, lastBatch, plotBuilt,
                 sentOnConnection, sentEarlier>>
  /\ UNCHANGED storeVars

OnOpen ==
  /\ webSocket = "connecting"
  /\ webSocket' = "open"
  /\ reconnectDelayBase' = 0
  /\ closesSinceReset' = 0
  /\ attemptsBeforeOpen' = reconnectDelayBase
  /\ UNCHANGED <<liveSockets, activeTimers, countdownStart, countdownTicks>>
  /\ UNCHANGED <<appStarted, reconnectDelaySeconds, reconnectInterval,
                 hasRequestedHistoryGraph, publicConfig, pageReady, taskIds, activeTasks, clearedTasks,
                 serverRegistrations, lastUpdated, lastBatch, plotBuilt,
                 sentOnConnection,
                 sentEarlier>>
  /\ UNCHANGED storeVars

\* webSocket.onclose: App.handleDisconnect(), then scheduleReconnect()
OnCloseDropsTasks ==
  /\ liveSockets > 0
  /\ reconnectDelayBase < MaxAttempts
  \* handleDisconnect
  /\ serverRegistrations' = {}
  /\ hasRequestedHistoryGraph' = reset(hasRequestedHistoryGraph)
  /\ plotBuilt' = FALSE
  /\ lastUpdated' = {}
  /\ lastBatch' = 0
  /\ publicConfig' = UndefinedConfig
  /\ activeTasks' = activeTasks
  /\ clearedTasks' = taskIds
  /\ taskIds' = 0
  /\ pageReady' = FALSE
  \* scheduleReconnect
  /\ webSocket' = "undefined"
  /\ reconnectDelayBase' = reconnectDelayBase + 1
  /\ reconnectDelaySeconds' = ReconnectDelay(reconnectDelayBase + 1)
  /\ reconnectInterval' = TRUE
  /\ sentOnConnection' = 0
  /\ sentEarlier' = (sentEarlier \/ sentOnConnection > 0)
  /\ closesSinceReset' = closesSinceReset + 1
  /\ liveSockets' = liveSockets - 1
  /\ activeTimers' = activeTimers + 1
  /\ countdownStart' = ReconnectDelay(reconnectDelayBase + 1)
  /\ countdownTicks' = 0
  /\ UNCHANGED <<appStarted, attemptsBeforeOpen>>
  /\ UNCHANGED storeVars

OnClose ==
  /\ liveSockets > 0
  /\ reconnectDelayBase < MaxAttempts
  \* handleDisconnect
  /\ serverRegistrations' = {}
  /\ hasRequestedHistoryGraph' = reset(hasRequestedHistoryGraph)
  /\ plotBuilt' = FALSE
  /\ lastUpdated' = {}
  /\ lastBatch' = 0
  /\ publicConfig' = UndefinedConfig
  /\ activeTasks' = activeTasks - taskIds
  /\ clearedTasks' = taskIds
  /\ taskIds' = 0
  /\ pageReady' = FALSE
  \* scheduleReconnect
  /\ webSocket' = "undefined"
  /\ reconnectDelayBase' = reconnectDelayBase + 1
  /\ reconnectDelaySeconds' = ReconnectDelay(reconnectDelayBase + 1)
  /\ reconnectInterval' = TRUE
  /\ sentOnConnection' = 0
  /\ sentEarlier' = (sentEarlier \/ sentOnConnection > 0)
  /\ closesSinceReset' = closesSinceReset + 1
  /\ liveSockets' = liveSockets - 1
  /\ activeTimers' = activeTimers + 1
  /\ countdownStart' = ReconnectDelay(reconnectDelayBase + 1)
  /\ countdownTicks' = 0
  /\ UNCHANGED <<appStarted, attemptsBeforeOpen>>
  /\ UNCHANGED storeVars

\* the setInterval callback of scheduleReconnect, once per second
TickConnectsEarly ==
  /\ activeTimers > 0
  /\ reconnectDelaySeconds' = reconnectDelaySeconds - 1
  /\ countdownTicks' = countdownTicks + 1
  /\ IF reconnectDelaySeconds - 1 <= 1
       THEN /\ reconnectInterval' = FALSE
            /\ activeTimers' = activeTimers - 1
            /\ webSocket' = "connecting"
            /\ liveSockets' = liveSockets + 1
       ELSE UNCHANGED <<reconnectInterval, activeTimers, webSocket, liveSockets>>
  /\ UNCHANGED <<attemptsBeforeOpen, countdownStart>>
  /\ UNCHANGED <<appStarted, reconnectDelayBase, hasRequestedHistoryGraph,
                 publicConfig, pageReady, taskIds, activeTasks, clearedTasks, serverRegistrations, lastUpdated,
                 lastBatch, plotBuilt, sentOnConnection, sentEarlier, closesSinceReset>>
  /\ UNCHANGED storeVars

TickKeepsTimer ==
  /\ activeTimers > 0
  /\ reconnectDelaySeconds' = reconnectDelaySeconds - 1
  /\ countdownTicks' = countdownTicks + 1
  /\ IF reconnectDelaySeconds - 1 = 0
       THEN /\ webSocket' = "connecting"
            /\ liveSockets' = liveSockets + 1
            /\ UNCHANGED <<reconnectInterval, activeTimers>>
       ELSE UNCHANGED <<reconnectInterval, activeTimers, webSocket, liveSockets>>
  /\ UNCHANGED <<attemptsBeforeOpen, countdownStart>>
  /\ UNCHANGED <<appStarted, reconnectDelayBase, hasRequestedHistoryGraph,
                 publicConfig, pageReady, taskIds, activeTasks, clearedTasks, serverRegistrations, lastUpdated,
                 lastBatch, plotBuilt, sentOnConnection, sentEarlier, closesSinceReset>>
  /\ UNCHANGED storeVars

Tick ==
  /\ activeTimers > 0
  /\ reconnectDelaySeconds' = reconnectDelaySeconds - 1
  /\ countdownTicks' = countdownTicks + 1
  /\ IF reconnectDelaySeconds - 1 = 0
       THEN /\ reconnectInterval' = FALSE
            /\ activeTimers' = activeTimers - 1
            /\ webSocket' = "connecting"
            /\ liveSockets' = liveSockets + 1
       ELSE UNCHANGED <<reconnectInterval, activeTimers, webSocket, liveSockets>>
  /\ UNCHANGED <<attemptsBeforeOpen, countdownStart>>
  /\ UNCHANGED <<appStarted, reconnectDelayBase, hasRequestedHistoryGraph,
                 publicConfig, pageReady, taskIds, activeTasks, clearedTasks, serverRegistrations, lastUpdated,
                 lastBatch, plotBuilt, sentOnConnection, sentEarlier, closesSinceReset>>
  /\ UNCHANGED storeVars

\* webSocket.onmessage, case 'init'
OnMessageInitAlwaysRequests(config, servers) ==
  /\ webSocket = "open"
  /\ taskIds < MaxTasks
  /\ publicConfig' = config
  /\ taskIds' = taskIds + 1
  /\ activeTasks' = activeTasks + 1
  /\ UNCHANGED clearedTasks
  /\ pageReady' = TRUE
  /\ LET sent == sendHistoryGraphRequest(hasRequestedHistoryGraph)
     IN /\ hasRequestedHistoryGraph' = sent[1]
        /\ sentOnConnection' = sentOnConnection + sent[2]
  /\ serverRegistrations' = serverRegistrations \cup servers
  /\ UNCHANGED <<appStarted, webSocket, reconnectDelayBase, reconnectDelaySeconds,
                 reconnectInterval, lastUpdated, lastBatch, plotBuilt, sentEarlier,
                 closesSinceReset>>
  /\ UNCHANGED connectionHistory
  /\ UNCHANGED storeVars

OnMessageInit(config, servers) ==
  /\ webSocket = "open"
  /\ taskIds < MaxTasks
  /\ publicConfig' = config
  /\ taskIds' = taskIds + 1
  /\ activeTasks' = activeTasks + 1
  /\ UNCHANGED clearedTasks
  /\ pageReady' = TRUE
  /\ LET sent == IF config.isGraphVisible
                   THEN sendHistoryGraphRequest(hasRequestedHistoryGraph)
                   ELSE <<hasRequestedHistoryGraph, 0>>
     IN /\ hasRequestedHistoryGraph' = sent[1]
        /\ sentOnConnection' = sentOnConnection + sent[2]
  /\ serverRegistrations' = serverRegistrations \cup servers
  /\ UNCHANGED <<appStarted, webSocket, reconnectDelayBase, reconnectDelaySeconds,
                 reconnectInterval, lastUpdated, lastBatch, plotBuilt, sentEarlier,
                 closesSinceReset>>
  /\ UNCHANGED connectionHistory
  /\ UNCHANGED storeVars

\* webSocket.onmessage, case 'updateServers' with payload.updates.length = n:
\* handlePing and updateServerStatus for the entries that have a registration
OnMessageUpdateServersUnchecked(n) ==
  /\ webSocket = "open"
  /\ lastUpdated' = 0 .. (n - 1)
  /\ lastBatch' = n
  /\ UNCHANGED <<appStarted, webSocket, reconnectDelayBase, reconnectDelaySeconds,
                 reconnectInterval, hasRequestedHistoryGraph, publicConfig, pageReady,
                 taskIds, activeTasks, clearedTasks, serverRegistrations, plotBuilt, sentOnConnection,
                 sentEarlier, closesSinceReset>>
  /\ UNCHANGED connectionHistory
  /\ UNCHANGED storeVars

OnMessageUpdateServers(n) ==
  /\ webSocket = "open"
  /\ lastUpdated' = {serverId \in 0 .. (n - 1) : serverId \in serverRegistrations}
  /\ lastBatch' = n
  /\ UNCHANGED <<appStarted, webSocket, reconnectDelayBase, reconnectDelaySeconds,
                 reconnectInterval, hasRequestedHistoryGraph, publicConfig, pageReady,
                 taskIds, activeTasks, clearedTasks, serverRegistrations, plotBuilt, sentOnConnection,
                 sentEarlier, closesSinceReset>>
  /\ UNCHANGED connectionHistory
  /\ UNCHANGED storeVars

\* webSocket.onmessage, case 'historyGraph'
OnMessageHistoryGraph ==
  /\ webSocket = "open"
  /\ plotBuilt' = TRUE
  /\ UNCHANGED <<appStarted, webSocket, reconnectDelayBase, reconnectDelaySeconds,
                 reconnectInterval, hasRequestedHistoryGraph, publicConfig, pageReady,
                 taskIds, activeTasks, clearedTasks, serverRegistrations, lastUpdated, lastBatch,
                 sentOnConnection,
                 sentEarlier, closesSinceReset>>
  /\ UNCHANGED connectionHistory
  /\ UNCHANGED storeVars

(***************************************************************************)
(* The store: the operations of Database, document backend (MongoDB) and   *)
(* tabular backend (MySQL)                                                 *)
(***************************************************************************)
MaxTime == 2            \* seconds the clock advances
MaxPings == 3           \* rows of pings, pruner and graph loader
MaxRecordPings == 2     \* rows of pings, record refresh
MaxPending == 2         \* deleteOldPings passes in flight at once

Null == -1              \* JavaScript null / SQL NULL
GraphDuration == 1000   \* config.graphDuration, in ms
DefaultCleanupInterval == 3600000

\* TimeTracker.toSeconds
MillisPerSecond == 1000

toSeconds(timestamp) == IF timestamp = Null THEN Null ELSE timestamp \div MillisPerSecond

Backends == {"document", "tabular"}

TopstrixIp == "play.topstrix.net"

\* this._app.serverRegistrations, by data.ip
ServerRegistrationIps == <<"play.topstrix.net", "mc.example.org">>

NoRow == [found |-> FALSE, ip |-> "", playerCount |-> Null, timestamp |-> Null]

Row(ip, playerCount, timestamp) ==
  [found |-> TRUE, ip |-> ip, playerCount |-> playerCount, timestamp |-> timestamp]

\* history: a completed store call; again = the call before it was the same
\* call with the same arguments, and before = the rows that one removed
NoOp == [op |-> "none", ip |-> "", v |-> Null, t |-> Null, removed |-> 0,
         again |-> FALSE, before |-> 0]

Op(op, ip, v, t, removed) ==
  LET same == lastOp.op = op /\ lastOp.ip = ip /\ lastOp.v = v /\ lastOp.t = t
  IN [op |-> op, ip |-> ip, v |-> v, t |-> t, removed |-> removed,
      again |-> same, before |-> IF same THEN lastOp.removed ELSE 0]

RECURSIVE SeqMax(_)
SeqMax(s) == IF s = <<>> THEN Null
             ELSE LET m == SeqMax(Tail(s))
                  IN IF Head(s) >= m THEN Head(s) ELSE m

RowsOf(rows, ip) == SelectSeq(rows, LAMBDA r : r.ip = ip)

PlayerCountsOf(rows) == [i \in 1 .. Len(rows) |-> rows[i].playerCount]

\* insertPing: insertOne / INSERT INTO pings
insertPing(rows, ip, timestamp, unsafePlayerCount) ==
  Append(rows, Row(ip, unsafePlayerCount, timestamp))

\* insertPing writes to pings only: players_record after the call
insertPingBumpsRecord(recs, ip, timestamp, unsafePlayerCount) ==
  IF \E i \in 1 .. Len(recs) : recs[i].ip = ip /\ recs[i].playerCount < unsafePlayerCount
    THEN [i \in 1 .. Len(recs) |->
            IF recs[i].ip = ip THEN Row(ip, unsafePlayerCount, timestamp) ELSE recs[i]]
    ELSE recs

recordsAfterInsertPing(recs, ip, timestamp, unsafePlayerCount) == recs

\* getRecord: findOne({ ip }) / SELECT ... WHERE ip = ?, data[0]
getRecord(recs, ip) ==
  LET mine == RowsOf(recs, ip) IN IF mine = <<>> THEN NoRow ELSE Head(mine)

\* getRecordLegacy, document backend: findOne({ ip }, { sort: { playerCount: -1 } }).
\* The set of rows the call may return: which of several equal maxima comes
\* first is the server's choice.
getRecordLegacyAscending(rows, ip) ==
  LET mine == RowsOf(rows, ip)
  IN IF mine = <<>> THEN {NoRow}
     ELSE {mine[i] : i \in {k \in 1 .. Len(mine) :
                              \A l \in 1 .. Len(mine) :
                                  mine[k].playerCount <= mine[l].playerCount}}

getRecordLegacyDocument(rows, ip) ==
  LET mine == RowsOf(rows, ip)
  IN IF mine = <<>> THEN {NoRow}
     ELSE {mine[i] : i \in {k \in 1 .. Len(mine) :
                              mine[k].playerCount = SeqMax(PlayerCountsOf(mine))}}

\* getRecordLegacy, tabular backend:
\*   SELECT MAX(playerCount) as maxPlayerCount, timestamp FROM pings
\*   WHERE ip = 'play.topstrix.net' GROUP BY timestamp
\* and data[0] of the result. The ip parameter is not used by the query; the
\* order of the groups is the server's choice.
getRecordLegacyTabular(rows, ip) ==
  LET mine == RowsOf(rows, TopstrixIp)
      stamps == {mine[i].timestamp : i \in 1 .. Len(mine)}
      group(t) == SelectSeq(mine, LAMBDA r : r.timestamp = t)
  IN IF mine = <<>> THEN {NoRow}
     ELSE {Row(ip, SeqMax(PlayerCountsOf(group(t))), t) : t \in stamps}

getRecordLegacy(b, rows, ip) ==
  IF b = "document" THEN getRecordLegacyDocument(rows, ip)
  ELSE getRecordLegacyTabular(rows, ip)

\* insertRecord, document backend: insertOne (the index on ip is not unique);
\* tabular backend (in loadRecords): INSERT IGNORE under PRIMARY KEY (ip)
insertRecordIfFound(b, recs, ip, playerCount, timestamp) ==
  IF playerCount = Null \/ (b = "tabular" /\ RowsOf(recs, ip) # <<>>) THEN recs
  ELSE Append(recs, Row(ip, playerCount, timestamp))

insertRecord(b, recs, ip, playerCount, timestamp) ==
  IF b = "tabular" /\ RowsOf(recs, ip) # <<>> THEN recs
  ELSE Append(recs, Row(ip, playerCount, timestamp))

\* updatePlayerCountRecord: updateOne({ ip }, { $set }) / UPDATE ... WHERE ip = ?
updatePlayerCountRecordUpsert(recs, ip, playerCount, timestamp) ==
  IF RowsOf(recs, ip) = <<>> THEN Append(recs, Row(ip, playerCount, timestamp))
  ELSE LET first == CHOOSE i \in 1 .. Len(recs) :
                      recs[i].ip = ip /\ \A j \in 1 .. (i - 1) : recs[j].ip # ip
       IN [recs EXCEPT ![first] = Row(ip, playerCount, timestamp)]

updatePlayerCountRecord(recs, ip, playerCount, timestamp) ==
  IF RowsOf(recs, ip) = <<>> THEN recs
  ELSE LET first == CHOOSE i \in 1 .. Len(recs) :
                      recs[i].ip = ip /\ \A j \in 1 .. (i - 1) : recs[j].ip # ip
       IN [recs EXCEPT ![first] = Row(ip, playerCount, timestamp)]

\* deleteOldPings: deleteMany({ timestamp: { $lt } }) / DELETE ... WHERE timestamp < ?
deleteOlderThanInclusive(rows, oldestTimestamp) ==
  SelectSeq(rows, LAMBDA r : ~(r.timestamp <= oldestTimestamp))

deleteOlderThanOne(rows, oldestTimestamp) ==
  IF \E i \in 1 .. Len(rows) : rows[i].timestamp < oldestTimestamp
    THEN LET first == CHOOSE i \in 1 .. Len(rows) :
                        /\ rows[i].timestamp < oldestTimestamp
                        /\ \A j \in 1 .. (i - 1) : ~(rows[j].timestamp < oldestTimestamp)
         IN SubSeq(rows, 1, first - 1) \o SubSeq(rows, first + 1, Len(rows))
    ELSE rows

deleteOlderThan(rows, oldestTimestamp) ==
  SelectSeq(rows, LAMBDA r : ~(r.timestamp < oldestTimestamp))

\* getRecentPings: find({ timestamp: { $gte: startTime, $lte: endTime } }) /
\* SELECT * FROM pings WHERE timestamp >= ? AND timestamp <= ?
getRecentPingsExclusive(rows, startTime, endTime) ==
  SelectSeq(rows, LAMBDA r : r.timestamp > startTime /\ r.timestamp <= endTime)

getRecentPings(rows, startTime, endTime) ==
  SelectSeq(rows, LAMBDA r : r.timestamp >= startTime /\ r.timestamp <= endTime)

\* the arguments of a loadGraphPoints(startTime, timestamps, values) call
NoPoints == [loaded |-> FALSE, startTime |-> Null, timestamps |-> <<>>, values |-> <<>>]

Points(startTime, timestamps, values) ==
  [loaded |-> TRUE, startTime |-> startTime, timestamps |-> timestamps, values |-> values]

\* config.oldPingsCleanup.interval || 3600000
intervalOrDefault(interval) ==
  IF ~interval.set \/ interval.value = 0 THEN DefaultCleanupInterval ELSE interval.value

UnsetInterval == [set |-> FALSE, value |-> 0]

Cycles == {1, 2}

\* err.code of a failed store call: the duplicate-key class (ER_DUP_ENTRY)
\* and every other failure
ErrorCodes == {"ER_DUP_ENTRY", "ER_OTHER"}

NoError == [call |-> "none", code |-> "none"]

InitStoreTracking(backends, intervals, tracked) ==
  /\ backend \in backends
  /\ numTracked \in tracked
  /\ lrProcessed = [c \in Cycles |-> {}]
  /\ lrError = [c \in Cycles |-> NoError]
  /\ now = 0
  /\ pings = <<>>
  /\ records = <<>>
  /\ lastOp = NoOp
  /\ cleanupInterval \in intervals
  /\ initPc = "idle"
  /\ periodicScheduled = FALSE
  /\ scheduledInterval = 0
  /\ pendingDeletes = <<>>
  /\ readyCalls = 0
  /\ periodicFailed = FALSE
  /\ lrPc = [c \in Cycles |-> "idle"]
  /\ lrIdx = [c \in Cycles |-> 0]
  /\ lrLegacy = [c \in Cycles |-> NoRow]
  /\ lrQueue = [c \in Cycles |-> <<>>]
  /\ completedTasks = [c \in Cycles |-> 0]
  /\ callbackCalls = [c \in Cycles |-> 0]
  /\ recordData = [i \in 1 .. Len(ServerRegistrationIps) |->
                     [set |-> FALSE, playerCount |-> Null, timestamp |-> Null]]
  /\ maxInserted = [ip \in {ServerRegistrationIps[i] : i \in 1 .. Len(ServerRegistrationIps)}
                      |-> Null]
  /\ firstComputed = [ip \in {ServerRegistrationIps[i] : i \in 1 .. Len(ServerRegistrationIps)}
                        |-> [done |-> FALSE, row |-> NoRow, stored |-> Null, inserted |-> Null]]
  /\ lgPc = "idle"
  /\ lgStartTime = 0
  /\ lgEndTime = 0
  /\ graphPoints = [i \in 1 .. Len(ServerRegistrationIps) |-> NoPoints]
  /\ timeTrackerPoints = NoPoints
  /\ lgCallbacks = 0
  /\ eiPc = "idle"
  /\ eiQueue = <<>>
  /\ eiCompleted = {}
  /\ eiLogged = {}
  /\ eiRaised = "none"
  /\ eiCallbacks = 0
  /\ eiCalls = 0

InitStore(backends, intervals) ==
  InitStoreTracking(backends, intervals, {Len(ServerRegistrationIps)})

\* the clock
Advance ==
  /\ now < MaxTime * MillisPerSecond
  /\ now' = now + MillisPerSecond
  /\ UNCHANGED <<backend, pings, records, lastOp>>
  /\ UNCHANGED <<pruneVars, cycleVars, socketVars, schemaVars, graphVars>>

\* insertPing(ip, timestamp, unsafePlayerCount)
InsertPing(ip, timestamp, unsafePlayerCount) ==
  /\ pings' = insertPing(pings, ip, timestamp, unsafePlayerCount)
  /\ lastOp' = Op("insertPing", "", Null, Null, 0)
  /\ maxInserted' = IF ip \in DOMAIN maxInserted /\ unsafePlayerCount > maxInserted[ip]
                      THEN [maxInserted EXCEPT ![ip] = unsafePlayerCount]
                      ELSE maxInserted
  /\ records' = recordsAfterInsertPing(records, ip, timestamp, unsafePlayerCount)
  /\ UNCHANGED <<backend, now>>
  /\ UNCHANGED <<lrPc, lrIdx, lrLegacy, lrQueue, completedTasks, callbackCalls,
                 numTracked, lrProcessed, lrError, recordData, firstComputed>>
  /\ UNCHANGED <<pruneVars, socketVars, schemaVars, graphVars>>

\* updatePlayerCountRecord(ip, playerCount, timestamp), completing without error
UpdatePlayerCountRecord(ip, playerCount, timestamp) ==
  /\ records' = updatePlayerCountRecord(records, ip, playerCount, timestamp)
  /\ lastOp' = Op("updatePlayerCountRecord", ip, playerCount, timestamp, 0)
  /\ UNCHANGED <<backend, now, pings>>
  /\ UNCHANGED <<pruneVars, cycleVars, socketVars, schemaVars, graphVars>>

(***************************************************************************)
(* The retention pruner: initOldPingsDelete and deleteOldPings             *)
(***************************************************************************)
\* a pass reads the clock when it is called; its delete runs later
NewPass(startup) ==
  [oldestTimestamp |-> now - GraphDuration, startup |-> startup, calledAt |-> now]

\* initOldPingsDelete(callback), up to the startup deleteOldPings()
InitOldPingsDelete ==
  /\ initPc = "idle"
  /\ initPc' = "startup"
  /\ pendingDeletes' = Append(pendingDeletes, NewPass(TRUE))
  /\ UNCHANGED <<cleanupInterval, periodicScheduled, scheduledInterval, readyCalls,
                 periodicFailed>>
  /\ UNCHANGED <<dbVars, cycleVars, socketVars, schemaVars, graphVars>>

\* the setInterval callback: () => this.deleteOldPings()
PeriodicPass ==
  /\ periodicScheduled
  /\ Len(pendingDeletes) < MaxPending
  /\ pendingDeletes' = Append(pendingDeletes, NewPass(FALSE))
  /\ UNCHANGED <<cleanupInterval, initPc, periodicScheduled, scheduledInterval,
                 readyCalls, periodicFailed>>
  /\ UNCHANGED <<dbVars, cycleVars, socketVars, schemaVars, graphVars>>

RemoveAt(s, k) == SubSeq(s, 1, k - 1) \o SubSeq(s, k + 1, Len(s))

\* the delete of pass k completes without error; a startup pass then resumes
\* initOldPingsDelete: the interval is scheduled if positive, and callback() runs
DeleteOldPingsDone(k) ==
  /\ k \in 1 .. Len(pendingDeletes)
  /\ pings' = deleteOlderThan(pings, pendingDeletes[k].oldestTimestamp)
  /\ lastOp' = Op("deleteOldPings", "", Null, pendingDeletes[k].oldestTimestamp,
                      Len(pings) - Len(pings'))
  /\ pendingDeletes' = RemoveAt(pendingDeletes, k)
  /\ IF pendingDeletes[k].startup
       THEN /\ initPc' = "done"
            /\ periodicScheduled' = (intervalOrDefault(cleanupInterval) > 0)
            /\ scheduledInterval' = IF intervalOrDefault(cleanupInterval) > 0
                                      THEN intervalOrDefault(cleanupInterval) ELSE 0
            /\ readyCalls' = readyCalls + 1
       ELSE UNCHANGED <<initPc, periodicScheduled, scheduledInterval, readyCalls>>
  /\ UNCHANGED <<backend, now, records, cleanupInterval, periodicFailed>>
  /\ UNCHANGED <<cycleVars, socketVars, schemaVars, graphVars>>

\* the delete of pass k fails: the error is logged and thrown. A startup pass
\* ends initOldPingsDelete before it schedules anything or calls back. A
\* periodic pass was called from the timer callback, which drops what it
\* returns, and nothing clears the timer. Tabular backend: the throw is an
\* uncaught exception, which ends the process and the timer with it. Document
\* backend: the throw rejects a promise nobody handles; the runtime either
\* ends the process on it or only reports it, and then the timer goes on.
DeleteOldPingsFailedReady(k) ==
  /\ k \in 1 .. Len(pendingDeletes)
  /\ pendingDeletes' = RemoveAt(pendingDeletes, k)
  /\ IF pendingDeletes[k].startup
       THEN /\ initPc' = "failed"
            /\ readyCalls' = readyCalls + 1
            /\ UNCHANGED <<periodicScheduled, periodicFailed>>
       ELSE /\ periodicFailed' = TRUE
            /\ periodicScheduled' \in
                 IF backend = "document" THEN {FALSE, periodicScheduled} ELSE {FALSE}
            /\ UNCHANGED <<initPc, readyCalls>>
  /\ UNCHANGED <<cleanupInterval, scheduledInterval>>
  /\ UNCHANGED <<dbVars, cycleVars, socketVars, schemaVars, graphVars>>

DeleteOldPingsFailed(k) ==
  /\ k \in 1 .. Len(pendingDeletes)
  /\ pendingDeletes' = RemoveAt(pendingDeletes, k)
  /\ IF pendingDeletes[k].startup
       THEN /\ initPc' = "failed"
            /\ UNCHANGED <<periodicScheduled, periodicFailed>>
       ELSE /\ periodicFailed' = TRUE
            /\ periodicScheduled' \in
                 IF backend = "document" THEN {FALSE, periodicScheduled} ELSE {FALSE}
            /\ UNCHANGED initPc
  /\ UNCHANGED <<cleanupInterval, scheduledInterval, readyCalls>>
  /\ UNCHANGED <<dbVars, cycleVars, socketVars, schemaVars, graphVars>>

(***************************************************************************)
(* The record-refresh cycle: loadRecords                                   *)
(***************************************************************************)
NumRegistrations == numTracked

RecordData(playerCount, timestamp) ==
  [set |-> TRUE, playerCount |-> playerCount, timestamp |-> toSeconds(timestamp)]

\* history: the first Record computed for ip, with what the store held then
Computed(ip, row) ==
  IF firstComputed[ip].done THEN firstComputed
  ELSE [firstComputed EXCEPT ![ip] =
          [done |-> TRUE, row |-> row,
           stored |-> SeqMax(PlayerCountsOf(RowsOf(pings, ip))),
           inserted |-> maxInserted[ip]]]

Query(kind, idx, playerCount, timestamp) ==
  [kind |-> kind, idx |-> idx, playerCount |-> playerCount, timestamp |-> timestamp]

\* loadRecords(callback) is called. Document backend: the loop starts and
\* suspends at the first getRecord. Tabular backend: forEach issues one
\* getRecord query per registration and returns.
LoadRecords(c) ==
  /\ lrPc[c] \in {"idle", "done"}
  /\ completedTasks' = [completedTasks EXCEPT ![c] = 0]
  /\ callbackCalls' = [callbackCalls EXCEPT ![c] = 0]
  /\ lrLegacy' = [lrLegacy EXCEPT ![c] = NoRow]
  /\ lrProcessed' = [lrProcessed EXCEPT ![c] = {}]
  /\ lrError' = [lrError EXCEPT ![c] = NoError]
  /\ IF backend = "document"
       THEN /\ lrPc' = [lrPc EXCEPT ![c] = IF NumRegistrations = 0 THEN "done"
                                            ELSE "getRecord"]
            /\ lrIdx' = [lrIdx EXCEPT ![c] = 1]
            /\ UNCHANGED lrQueue
       ELSE /\ lrPc' = [lrPc EXCEPT ![c] = IF NumRegistrations = 0 THEN "done"
                                            ELSE "queries"]
            /\ lrQueue' = [lrQueue EXCEPT ![c] =
                             [i \in 1 .. NumRegistrations |->
                                Query("getRecord", i, Null, Null)]]
            /\ UNCHANGED lrIdx
  /\ UNCHANGED <<numTracked, recordData, maxInserted, firstComputed>>
  /\ UNCHANGED <<dbVars, pruneVars, socketVars, schemaVars, graphVars>>

\* document backend: completedTasks++, callback() when every registration is
\* counted, and the loop's next iteration
TaskCompletedEvery(c) ==
  /\ completedTasks' = [completedTasks EXCEPT ![c] = completedTasks[c] + 1]
  /\ callbackCalls' = [callbackCalls EXCEPT ![c] = callbackCalls[c] + 1]
  /\ IF lrIdx[c] < NumRegistrations
       THEN /\ lrIdx' = [lrIdx EXCEPT ![c] = lrIdx[c] + 1]
            /\ lrPc' = [lrPc EXCEPT ![c] = "getRecord"]
       ELSE /\ lrPc' = [lrPc EXCEPT ![c] = "done"]
            /\ UNCHANGED lrIdx

TaskCompleted(c) ==
  /\ completedTasks' = [completedTasks EXCEPT ![c] = completedTasks[c] + 1]
  /\ callbackCalls' = IF completedTasks[c] + 1 = NumRegistrations
                        THEN [callbackCalls EXCEPT ![c] = callbackCalls[c] + 1]
                        ELSE callbackCalls
  /\ IF lrIdx[c] < NumRegistrations
       THEN /\ lrIdx' = [lrIdx EXCEPT ![c] = lrIdx[c] + 1]
            /\ lrPc' = [lrPc EXCEPT ![c] = "getRecord"]
       ELSE /\ lrPc' = [lrPc EXCEPT ![c] = "done"]
            /\ UNCHANGED lrIdx

\* document backend: await this.getRecord(ip) resolves
GetRecordDone(c) ==
  /\ backend = "document"
  /\ lrPc[c] = "getRecord"
  /\ LET ip == ServerRegistrationIps[lrIdx[c]]
         record == getRecord(records, ip)
     IN IF record.found
          THEN /\ recordData' = [recordData EXCEPT ![lrIdx[c]] =
                                   RecordData(record.playerCount, record.timestamp)]
               /\ lrProcessed' = [lrProcessed EXCEPT ![c] = @ \cup {lrIdx[c]}]
               /\ firstComputed' = Computed(ip, record)
               /\ TaskCompleted(c)
          ELSE /\ lrPc' = [lrPc EXCEPT ![c] = "getRecordLegacy"]
               /\ UNCHANGED <<recordData, lrProcessed, firstComputed, lrIdx,
                              completedTasks, callbackCalls>>
  /\ UNCHANGED <<lrLegacy, lrQueue, maxInserted, numTracked, lrError>>
  /\ UNCHANGED <<dbVars, pruneVars, socketVars, schemaVars, graphVars>>

\* document backend: await this.getRecordLegacy(ip) resolves; recordData is
\* set before the insert is awaited
GetRecordLegacyDone(c) ==
  /\ backend = "document"
  /\ lrPc[c] = "getRecordLegacy"
  /\ \E legacyRecord \in getRecordLegacy(backend, pings, ServerRegistrationIps[lrIdx[c]]) :
       /\ lrLegacy' = [lrLegacy EXCEPT ![c] = legacyRecord]
       /\ recordData' = [recordData EXCEPT ![lrIdx[c]] =
                           RecordData(legacyRecord.playerCount, legacyRecord.timestamp)]
       /\ firstComputed' = Computed(ServerRegistrationIps[lrIdx[c]], legacyRecord)
  /\ lrProcessed' = [lrProcessed EXCEPT ![c] = @ \cup {lrIdx[c]}]
  /\ lrPc' = [lrPc EXCEPT ![c] = "insertRecord"]
  /\ UNCHANGED <<lrIdx, lrQueue, completedTasks, callbackCalls, maxInserted,
                 numTracked, lrError>>
  /\ UNCHANGED <<dbVars, pruneVars, socketVars, schemaVars, graphVars>>

\* document backend: await this.insertRecord(ip, newPlayerCount, newTimestamp)
\* resolves; the values are null when no legacy record was found
InsertRecordDone(c) ==
  /\ backend = "document"
  /\ lrPc[c] = "insertRecord"
  /\ records' = insertRecord(backend, records, ServerRegistrationIps[lrIdx[c]],
                             lrLegacy[c].playerCount, lrLegacy[c].timestamp)
  /\ lastOp' = Op("insertRecord", "", Null, Null, 0)
  /\ TaskCompleted(c)
  /\ UNCHANGED <<lrLegacy, lrQueue, recordData, maxInserted, firstComputed,
                 numTracked, lrProcessed, lrError>>
  /\ UNCHANGED <<backend, now, pings>>
  /\ UNCHANGED <<pruneVars, socketVars, schemaVars, graphVars>>

\* document backend: the awaited store call rejects with err.code = code (a
\* duplicate key only on an insert that finds a Record of the ip in place).
\* The store method logs and rethrows it, loadRecords logs and rethrows it:
\* the promise loadRecords returned to its caller rejects.
StoreCallFailed(c, code) ==
  /\ backend = "document"
  /\ lrPc[c] \in {"getRecord", "getRecordLegacy", "insertRecord"}
  /\ code = "ER_DUP_ENTRY" =>
       /\ lrPc[c] = "insertRecord"
       /\ RowsOf(records, ServerRegistrationIps[lrIdx[c]]) # <<>>
  /\ lrPc' = [lrPc EXCEPT ![c] = "rejected"]
  /\ lrError' = [lrError EXCEPT ![c] = [call |-> lrPc[c], code |-> code]]
  /\ UNCHANGED <<lrIdx, lrLegacy, lrQueue, completedTasks, callbackCalls, recordData,
                 maxInserted, firstComputed, numTracked, lrProcessed>>
  /\ UNCHANGED <<dbVars, pruneVars, socketVars, schemaVars, graphVars>>

\* tabular backend: the connection answers the cycle's oldest query without
\* error and its callback runs
QueryDone(c) ==
  /\ backend = "tabular"
  /\ lrPc[c] = "queries"
  /\ lrQueue[c] # <<>>
  /\ LET query == Head(lrQueue[c])
         ip == ServerRegistrationIps[query.idx]
         rest == Tail(lrQueue[c])
         Finish(queue) ==
           /\ lrQueue' = [lrQueue EXCEPT ![c] = queue]
           /\ lrPc' = [lrPc EXCEPT ![c] = IF queue = <<>> THEN "done" ELSE "queries"]
     IN CASE query.kind = "getRecord" ->
               LET record == getRecord(records, ip)
               IN /\ IF record.found
                       THEN /\ recordData' = [recordData EXCEPT ![query.idx] =
                                 RecordData(record.playerCount, record.timestamp)]
                            /\ lrProcessed' = [lrProcessed EXCEPT ![c] = @ \cup {query.idx}]
                            /\ firstComputed' = Computed(ip, record)
                            /\ Finish(rest)
                       ELSE /\ Finish(Append(rest,
                                             Query("getRecordLegacy", query.idx, Null, Null)))
                            /\ UNCHANGED <<recordData, lrProcessed, firstComputed>>
                  /\ UNCHANGED <<lrLegacy, records, lastOp>>
          [] query.kind = "getRecordLegacy" ->
               \E legacyRecord \in getRecordLegacy(backend, pings, ip) :
                 /\ lrLegacy' = [lrLegacy EXCEPT ![c] = legacyRecord]
                 /\ recordData' = [recordData EXCEPT ![query.idx] =
                      RecordData(legacyRecord.playerCount, legacyRecord.timestamp)]
                 /\ lrProcessed' = [lrProcessed EXCEPT ![c] = @ \cup {query.idx}]
                 /\ firstComputed' = Computed(ip, legacyRecord)
                 /\ Finish(Append(rest, Query("insertRecord", query.idx,
                                              legacyRecord.playerCount,
                                              legacyRecord.timestamp)))
                 /\ UNCHANGED <<records, lastOp>>
          [] query.kind = "insertRecord" ->
               /\ records' = insertRecord(backend, records, ip, query.playerCount,
                                          query.timestamp)
               /\ lastOp' = Op("insertRecord", "", Null, Null, 0)
               /\ Finish(rest)
               /\ UNCHANGED <<lrLegacy, recordData, lrProcessed, firstComputed>>
  /\ UNCHANGED <<lrIdx, completedTasks, callbackCalls, maxInserted, numTracked, lrError>>
  /\ UNCHANGED <<backend, now, pings>>
  /\ UNCHANGED <<pruneVars, socketVars, schemaVars, graphVars>>

\* tabular backend: the oldest query is answered with an error of err.code =
\* code (a duplicate key only on an insert that finds a Record of the ip in
\* place). The insert's callback returns on ER_DUP_ENTRY; every other error is
\* thrown from the query callback, where no caller of loadRecords is on the
\* stack: an uncaught exception.
QueryFailed(c, code) ==
  /\ backend = "tabular"
  /\ lrPc[c] = "queries"
  /\ lrQueue[c] # <<>>
  /\ LET query == Head(lrQueue[c])
         rest == Tail(lrQueue[c])
     IN /\ code = "ER_DUP_ENTRY" =>
             /\ query.kind = "insertRecord"
             /\ RowsOf(records, ServerRegistrationIps[query.idx]) # <<>>
        /\ lrError' = [lrError EXCEPT ![c] = [call |-> query.kind, code |-> code]]
        /\ IF query.kind = "insertRecord" /\ code = "ER_DUP_ENTRY"
             THEN /\ lrQueue' = [lrQueue EXCEPT ![c] = rest]
                  /\ lrPc' = [lrPc EXCEPT ![c] = IF rest = <<>> THEN "done" ELSE "queries"]
                  /\ UNCHANGED lrIdx
             ELSE /\ lrPc' = [lrPc EXCEPT ![c] = "uncaught"]
                  /\ lrIdx' = [lrIdx EXCEPT ![c] = query.idx]
                  /\ UNCHANGED lrQueue
  /\ UNCHANGED <<lrLegacy, completedTasks, callbackCalls, recordData,
                 maxInserted, firstComputed, numTracked, lrProcessed>>
  /\ UNCHANGED <<dbVars, pruneVars, socketVars, schemaVars, graphVars>>

(***************************************************************************)
(* The graph window: loadGraphPoints                                       *)
(***************************************************************************)
\* relativeGraphData[ip] = [[timestamps], [values]], filled row by row
TimestampsOf(rows) == [i \in 1 .. Len(rows) |-> rows[i].timestamp]

relativeGraphData(pingData, ip) ==
  <<TimestampsOf(RowsOf(pingData, ip)), PlayerCountsOf(RowsOf(pingData, ip))>>

\* Object.keys(relativeGraphData): the ips in the order their first row came
RECURSIVE Keys(_)
Keys(pingData) ==
  IF pingData = <<>> THEN <<>>
  ELSE LET front == Keys(SubSeq(pingData, 1, Len(pingData) - 1))
           ip == pingData[Len(pingData)].ip
       IN IF \E i \in 1 .. Len(front) : front[i] = ip THEN front ELSE Append(front, ip)

\* loadGraphPoints(graphDuration, callback) is called: the window is read
\* off the clock and the query is issued
LoadGraphPoints(graphDuration) ==
  /\ lgPc \in {"idle", "done"}
  /\ lgPc' = "query"
  /\ lgEndTime' = now
  /\ lgStartTime' = now - graphDuration
  /\ UNCHANGED <<graphPoints, timeTrackerPoints, lgCallbacks>>
  /\ UNCHANGED <<dbVars, pruneVars, cycleVars, socketVars, schemaVars>>

\* Object.keys(relativeGraphData)[0]
serverIpLast(keys) == keys[Len(keys)]

serverIp(keys) == keys[1]

\* getRecentPings answers: the rows are grouped by ip, each group goes to the
\* first registration of that ip, the first group's timestamps go to the
\* time tracker, and callback() runs
GetRecentPingsDoneResets ==
  /\ lgPc = "query"
  /\ LET pingData == getRecentPings(pings, lgStartTime, lgEndTime)
         keys == Keys(pingData)
         IsFirstOf(i, ip) ==
           /\ ServerRegistrationIps[i] = ip
           /\ \A j \in 1 .. (i - 1) : ServerRegistrationIps[j] # ip
     IN /\ graphPoints' =
             [i \in 1 .. Len(ServerRegistrationIps) |->
                IF \E k \in 1 .. Len(keys) : IsFirstOf(i, keys[k])
                  THEN Points(lgStartTime,
                              relativeGraphData(pingData, ServerRegistrationIps[i])[1],
                              relativeGraphData(pingData, ServerRegistrationIps[i])[2])
                  ELSE NoPoints]
        /\ timeTrackerPoints' =
             IF Len(keys) > 0
               THEN Points(lgStartTime, relativeGraphData(pingData, serverIp(keys))[1], <<>>)
               ELSE timeTrackerPoints
  /\ lgCallbacks' = lgCallbacks + 1
  /\ lgPc' = "done"
  /\ UNCHANGED <<lgStartTime, lgEndTime>>
  /\ UNCHANGED <<dbVars, pruneVars, cycleVars, socketVars, schemaVars>>


GetRecentPingsDone ==
  /\ lgPc = "query"
  /\ LET pingData == getRecentPings(pings, lgStartTime, lgEndTime)
         keys == Keys(pingData)
         IsFirstOf(i, ip) ==
           /\ ServerRegistrationIps[i] = ip
           /\ \A j \in 1 .. (i - 1) : ServerRegistrationIps[j] # ip
     IN /\ graphPoints' =
             [i \in 1 .. Len(ServerRegistrationIps) |->
                IF \E k \in 1 .. Len(keys) : IsFirstOf(i, keys[k])
                  THEN Points(lgStartTime,
                              relativeGraphData(pingData, ServerRegistrationIps[i])[1],
                              relativeGraphData(pingData, ServerRegistrationIps[i])[2])
                  ELSE graphPoints[i]]
        /\ timeTrackerPoints' =
             IF Len(keys) > 0
               THEN Points(lgStartTime, relativeGraphData(pingData, serverIp(keys))[1], <<>>)
               ELSE timeTrackerPoints
  /\ lgCallbacks' = lgCallbacks + 1
  /\ lgPc' = "done"
  /\ UNCHANGED <<lgStartTime, lgEndTime>>
  /\ UNCHANGED <<dbVars, pruneVars, cycleVars, socketVars, schemaVars>>

\* getRecentPings fails: the error is logged and thrown
GetRecentPingsFailed ==
  /\ lgPc = "query"
  /\ lgPc' = "failed"
  /\ UNCHANGED <<lgStartTime, lgEndTime, graphPoints, timeTrackerPoints, lgCallbacks>>
  /\ UNCHANGED <<dbVars, pruneVars, cycleVars, socketVars, schemaVars>>

(***************************************************************************)
(* Schema setup: ensureIndexes                                             *)
(***************************************************************************)
\* document backend: the createIndex calls, awaited one after the other
DocumentStatements ==
  <<"pings (ip, playerCount)", "pings (timestamp)", "players_record (ip)">>

\* tabular backend: the queries ensureIndexes issues before it returns
TabularStatements ==
  <<"CREATE TABLE pings", "CREATE TABLE players_record", "ADD COLUMN ip_hash",
    "UPDATE ip_hash", "DROP INDEX ip_index", "CREATE INDEX ip_index",
    "DROP INDEX timestamp_index", "CREATE INDEX timestamp_index">>

\* the UPDATE issued from the callback of ADD COLUMN ip_hash
NestedStatement == "UPDATE ip_hash (nested)"

\* tabular backend: the statements whose callback only logs an error; the
\* others are given handleError, which throws it
LoggedOnly ==
  {"ADD COLUMN ip_hash", NestedStatement, "DROP INDEX ip_index",
   "DROP INDEX timestamp_index"}

\* the statements a callback queues behind the ones already issued
IssuedBy(statement) ==
  IF statement = "ADD COLUMN ip_hash" THEN <<NestedStatement>> ELSE <<>>

\* ensureIndexes(callback) is called. Document backend: the first createIndex
\* is awaited. Tabular backend: every query is queued, callback() is called
\* and the method returns.
EnsureIndexes ==
  /\ eiPc \in {"idle", "done"}
  /\ eiCalls' = eiCalls + 1
  /\ eiPc' = "running"
  /\ eiCompleted' = {}
  /\ eiLogged' = {}
  /\ eiRaised' = "none"
  /\ IF backend = "document"
       THEN eiQueue' = DocumentStatements /\ eiCallbacks' = 0
       ELSE eiQueue' = TabularStatements /\ eiCallbacks' = 1
  /\ UNCHANGED <<dbVars, pruneVars, cycleVars, graphVars, socketVars>>

\* the oldest statement completes without error
StatementDone ==
  /\ eiPc = "running"
  /\ eiQueue # <<>>
  /\ LET statement == Head(eiQueue)
         queue == Tail(eiQueue) \o (IF backend = "tabular" THEN IssuedBy(statement)
                                    ELSE <<>>)
     IN /\ eiCompleted' = eiCompleted \cup {statement}
        /\ eiQueue' = queue
        /\ eiPc' = IF queue = <<>> THEN "done" ELSE "running"
        /\ eiCallbacks' =
             IF backend = "document"
               THEN (IF queue = <<>> THEN eiCallbacks + 1 ELSE eiCallbacks)
               ELSE (IF statement = "CREATE INDEX timestamp_index"
                       THEN eiCallbacks + 1 ELSE eiCallbacks)
  /\ UNCHANGED <<eiLogged, eiRaised, eiCalls>>
  /\ UNCHANGED <<dbVars, pruneVars, cycleVars, graphVars, socketVars>>

\* the oldest statement fails. Document backend: the error is logged and
\* thrown, ensureIndexes rejects. Tabular backend: the statement's callback
\* either only logs the error, or handleError throws it from the query
\* callback (an uncaught exception).
StatementFailed ==
  /\ eiPc = "running"
  /\ eiQueue # <<>>
  /\ LET statement == Head(eiQueue)
         queue == Tail(eiQueue) \o IssuedBy(statement)
     IN IF backend = "document"
          THEN /\ eiRaised' = statement
               /\ eiPc' = "rejected"
               /\ UNCHANGED <<eiQueue, eiLogged>>
          ELSE IF statement \in LoggedOnly
                 THEN /\ eiLogged' = eiLogged \cup {statement}
                      /\ eiQueue' = queue
                      /\ eiPc' = IF queue = <<>> THEN "done" ELSE "running"
                      /\ UNCHANGED eiRaised
                 ELSE /\ eiRaised' = statement
                      /\ eiPc' = "uncaught"
                      /\ UNCHANGED <<eiQueue, eiLogged>>
  /\ UNCHANGED <<eiCompleted, eiCallbacks, eiCalls>>
  /\ UNCHANGED <<dbVars, pruneVars, cycleVars, graphVars, socketVars>>

(***************************************************************************)
(* Specifications                                                          *)
(***************************************************************************)
NextSocket ==
  \/ AppInit
  \/ OnOpen
  \/ OnClose
  \/ Tick
  \/ \E config \in Configs, servers \in ServerSnapshots : OnMessageInit(config, servers)
  \/ \E n \in 0 .. NumServers : OnMessageUpdateServers(n)
  \/ OnMessageHistoryGraph

InitSocketSpec == InitSocket /\ InitStore({"document"}, {UnsetInterval})

SpecSocket == InitSocketSpec /\ [][NextSocket]_vars

\* the client with its one-second timer firing as long as it is active
SpecSocketLive == InitSocketSpec /\ [][NextSocket]_vars /\ WF_vars(Tick)

\* the pruner, with samples arriving
PruneIps == {"mc.example.org"}

Timestamps == {k * MillisPerSecond : k \in 0 .. MaxTime}

CleanupIntervals ==
  {UnsetInterval} \cup {[set |-> TRUE, value |-> v] : v \in {-1, 0, 5000}}

InitPrune == InitSocket /\ InitStore(Backends, CleanupIntervals)

NextPrune ==
  \/ Advance
  \/ Len(pings) < MaxPings /\ \E ip \in PruneIps, t \in Timestamps : InsertPing(ip, t, 5)
  \/ InitOldPingsDelete
  \/ PeriodicPass
  \/ \E k \in 1 .. MaxPending : DeleteOldPingsDone(k)
  \/ \E k \in 1 .. MaxPending : DeleteOldPingsFailed(k)

SpecPrune == InitPrune /\ [][NextPrune]_vars

\* the record store and one refresh cycle, with samples arriving and the
\* pruner running
RegisteredIps == {ServerRegistrationIps[i] : i \in 1 .. NumRegistrations}

\* the samples that arrive: <<ip, playerCount>>
InsertedSamples == {<<TopstrixIp, 5>>, <<TopstrixIp, 9>>, <<"mc.example.org", 5>>}

UpdatedCounts == {20}

InitRecords == InitSocket /\ InitStore(Backends, {UnsetInterval})

NextRecords ==
  \/ Advance
  \/ Len(pings) < MaxRecordPings /\ \E x \in InsertedSamples : InsertPing(x[1], now, x[2])
  \/ \E ip \in RegisteredIps, v \in UpdatedCounts : UpdatePlayerCountRecord(ip, v, now)
  \/ LoadRecords(1)
  \/ GetRecordDone(1)
  \/ GetRecordLegacyDone(1)
  \/ InsertRecordDone(1)
  \/ QueryDone(1)

SpecRecords == InitRecords /\ [][NextRecords]_vars

\* one refresh cycle with samples arriving and the pruner running
NextRetention ==
  \/ Advance
  \/ Len(pings) < MaxRecordPings /\ \E v \in {5, 9} : InsertPing(TopstrixIp, now, v)
  \/ LoadRecords(1)
  \/ GetRecordDone(1)
  \/ GetRecordLegacyDone(1)
  \/ InsertRecordDone(1)
  \/ QueryDone(1)
  \/ InitOldPingsDelete
  \/ PeriodicPass
  \/ \E k \in 1 .. MaxPending : DeleteOldPingsDone(k)

SpecRetention == InitRecords /\ [][NextRetention]_vars

\* the graph loader, with samples arriving; one ip has no registration
GraphIps == {TopstrixIp, "unlisted.example.net"}

GraphCounts == {5, 9}

MaxLoads == 2           \* loadGraphPoints calls

InitGraph == InitSocket /\ InitStore(Backends, {UnsetInterval})

NextGraph ==
  \/ Advance
  \/ Len(pings) < MaxPings /\ \E ip \in GraphIps, t \in Timestamps, v \in GraphCounts :
                                InsertPing(ip, t, v)
  \/ lgCallbacks < MaxLoads /\ LoadGraphPoints(GraphDuration)
  \/ GetRecentPingsDone
  \/ GetRecentPingsFailed

SpecGraph == InitGraph /\ [][NextGraph]_vars

\* schema setup, called up to MaxEnsureCalls times, with its statements
\* succeeding or failing
MaxEnsureCalls == 2     \* ensureIndexes calls

InitSchema == InitSocket /\ InitStore(Backends, {UnsetInterval})

NextSchema ==
  \/ eiCalls < MaxEnsureCalls /\ EnsureIndexes
  \/ StatementDone
  \/ StatementFailed

SpecSchema == InitSchema /\ [][NextSchema]_vars

\* two refresh cycles suspended at their store calls at the same time, with
\* samples arriving and records being updated
CycleSamples == {<<TopstrixIp, 9>>, <<"mc.example.org", 5>>}

\* the number of tracked services, none included
TrackedCounts == 0 .. Len(ServerRegistrationIps)

InitCycles == InitSocket /\ InitStoreTracking(Backends, {UnsetInterval}, TrackedCounts)

NextCycles ==
  \/ Len(pings) < MaxRecordPings /\ \E x \in CycleSamples : InsertPing(x[1], now, x[2])
  \/ \E ip \in RegisteredIps, v \in UpdatedCounts : UpdatePlayerCountRecord(ip, v, now)
  \/ \E c \in Cycles : LoadRecords(c)
  \/ \E c \in Cycles : GetRecordDone(c)
  \/ \E c \in Cycles : GetRecordLegacyDone(c)
  \/ \E c \in Cycles : InsertRecordDone(c)
  \/ \E c \in Cycles : QueryDone(c)
  \/ \E c \in Cycles, code \in ErrorCodes : StoreCallFailed(c, code)
  \/ \E c \in Cycles, code \in ErrorCodes : QueryFailed(c, code)

SpecCycles == InitCycles /\ [][NextCycles]_vars

\* one refresh cycle in which every store call succeeds and is answered
NextRefresh ==
  \/ Len(pings) < MaxRecordPings /\ \E x \in CycleSamples : InsertPing(x[1], now, x[2])
  \/ LoadRecords(1)
  \/ GetRecordDone(1)
  \/ GetRecordLegacyDone(1)
  \/ InsertRecordDone(1)
  \/ QueryDone(1)

SpecRefresh ==
  /\ InitCycles
  /\ [][NextRefresh]_vars
  /\ WF_vars(GetRecordDone(1))
  /\ WF_vars(GetRecordLegacyDone(1))
  /\ WF_vars(InsertRecordDone(1))
  /\ WF_vars(QueryDone(1))


(***************************************************************************)
(* C3: insertPing changes no persisted Record: getRecord gives the same    *)
(* answer for every service before and after it, and a persisted Record    *)
(* changes only in an updatePlayerCountRecord call for its service.        *)
(***************************************************************************)
C3_InsertLeavesRecords ==
  /\ [][\A x \in InsertedSamples :
          InsertPing(x[1], now, x[2]) =>
            /\ records' = records
            /\ \A ip \in RegisteredIps : getRecord(records', ip) = getRecord(records, ip)]_vars
  /\ [][\A ip \in RegisteredIps :
          (getRecord(records, ip).found /\ getRecord(records', ip) # getRecord(records, ip))
            => \E v \in UpdatedCounts : UpdatePlayerCountRecord(ip, v, now)]_vars

C3_Witness ==
  /\ lastOp.op = "insertPing"
  /\ getRecord(records, TopstrixIp).found
  /\ getRecord(records, TopstrixIp).playerCount = 5
  /\ pings[Len(pings)].ip = TopstrixIp
  /\ pings[Len(pings)].playerCount = 9

LegacyAnswered(c) ==
  \/ GetRecordLegacyDone(c)
  \/ QueryDone(c) /\ Head(lrQueue[c]).kind = "getRecordLegacy"

LegacyIp(c) ==
  IF backend = "document" THEN ServerRegistrationIps[lrIdx[c]]
  ELSE ServerRegistrationIps[Head(lrQueue[c]).idx]

C5_LegacyReturnsMax ==
  [][\A c \in Cycles :
       LegacyAnswered(c) =>
         LET mine == RowsOf(pings, LegacyIp(c))
             answer == lrLegacy'[c]
         IN /\ answer.found <=> mine # <<>>
            /\ answer.found =>
                 /\ answer.playerCount = SeqMax(PlayerCountsOf(mine))
                 /\ \E i \in 1 .. Len(mine) :
                      /\ mine[i].playerCount = answer.playerCount
                      /\ mine[i].timestamp = answer.timestamp]_vars

(***************************************************************************)
(* C8: loadGraphPoints(D) hands each registration exactly the stored       *)
(* Samples of its address with now-D <= timestamp <= now, both bounds      *)
(* included, in store order, timestamps and values index-aligned; a        *)
(* Sample outside the window is never handed over.                         *)
(***************************************************************************)
InWindow(rows, ip) ==
  SelectSeq(rows, LAMBDA r : /\ r.ip = ip
                              /\ lgEndTime - GraphDuration <= r.timestamp
                              /\ r.timestamp <= lgEndTime)

C8_WindowInclusive ==
  [][GetRecentPingsDone =>
       \A i \in 1 .. NumRegistrations :
         LET mine == InWindow(pings, ServerRegistrationIps[i])
         IN IF mine = <<>> THEN graphPoints'[i] = graphPoints[i]
            ELSE /\ graphPoints'[i].loaded
                 /\ Len(graphPoints'[i].timestamps) = Len(mine)
                 /\ Len(graphPoints'[i].values) = Len(mine)
                 /\ \A k \in 1 .. Len(mine) :
                      /\ graphPoints'[i].timestamps[k] = mine[k].timestamp
                      /\ graphPoints'[i].values[k] = mine[k].playerCount]_vars

\* the first row is outside the window and was in the store before the two
\* rows that were handed over, one at each bound of the window
C8_Witness ==
  /\ lgPc = "done"
  /\ graphPoints[1].loaded
  /\ graphPoints[1].timestamps = <<lgEndTime, lgStartTime>>
  /\ graphPoints[1].values = <<9, 5>>
  /\ Len(pings) = 3
  /\ \A k \in 1 .. 3 : pings[k].ip = TopstrixIp
  /\ pings[1].timestamp < lgStartTime
  /\ pings[2].timestamp = lgEndTime /\ pings[2].playerCount = 9
  /\ pings[3].timestamp = lgStartTime /\ pings[3].playerCount = 5

(***************************************************************************)
(* C6: a prune pass, whose cutoff is the clock at the start of the pass    *)
(* less the retention window, keeps every Sample with timestamp >= cutoff  *)
(* that is in the store when its delete runs; only Samples with            *)
(* timestamp < cutoff are removed, and by nothing but a prune pass.        *)
(***************************************************************************)
NotOlder(rows, cutoff) == SelectSeq(rows, LAMBDA r : r.timestamp >= cutoff)

Older(rows, cutoff) == SelectSeq(rows, LAMBDA r : r.timestamp < cutoff)

C6_PruneKeepsNewer ==
  /\ [][\A k \in 1 .. MaxPending :
          DeleteOldPingsDone(k) =>
            LET cutoff == pendingDeletes[k].calledAt - GraphDuration
            IN /\ NotOlder(pings', cutoff) = NotOlder(pings, cutoff)
               /\ Len(pings) - Len(pings') = Len(Older(pings, cutoff))
               /\ Len(pings') = Len(NotOlder(pings, cutoff))]_vars
  /\ [][Len(pings') < Len(pings) => \E k \in 1 .. MaxPending : DeleteOldPingsDone(k)]_vars

C6_Witness ==
  /\ lastOp.op = "deleteOldPings"
  /\ lastOp.removed >= 1
  /\ \E i \in 1 .. Len(pings) : pings[i].timestamp = lastOp.t

(***************************************************************************)
(* C7: deleteOlderThan is idempotent: a delete that runs right after a     *)
(* delete with the same cutoff, no insert in between, removes no Sample    *)
(* and leaves the store as the first run left it.                          *)
(***************************************************************************)
C7_DeleteIdempotent ==
  [][\A k \in 1 .. MaxPending :
       (/\ DeleteOldPingsDone(k)
        /\ lastOp.op = "deleteOldPings"
        /\ lastOp.t = pendingDeletes[k].oldestTimestamp)
       => pings' = pings /\ lastOp'.removed = 0]_vars

C7_Witness ==
  /\ lastOp.op = "deleteOldPings"
  /\ lastOp.again
  /\ lastOp.before >= 1
  /\ lastOp.removed = 0
  /\ pings # <<>>

(***************************************************************************)
(* C9: initOldPingsDelete schedules the repeating pass if and only if the  *)
(* configured cleanup interval is strictly positive; an interval <= 0,     *)
(* exactly 0 included, schedules none; an interval that is not configured  *)
(* is the default 3,600,000 ms.                                            *)
(***************************************************************************)
C9_ScheduledIffPositive ==
  initPc = "done" =>
    /\ cleanupInterval.set =>
         /\ periodicScheduled <=> cleanupInterval.value > 0
         /\ periodicScheduled => scheduledInterval = cleanupInterval.value
    /\ ~cleanupInterval.set =>
         periodicScheduled /\ scheduledInterval = DefaultCleanupInterval

(***************************************************************************)
(* C10, as claimed: after updatePlayerCountRecord(ip, v, t) completes,     *)
(* getRecord(ip) answers (v, t) whether or not a Record of ip existed.     *)
(***************************************************************************)
C10_UpdateIsUpsert ==
  [][\A ip \in RegisteredIps, v \in UpdatedCounts :
       UpdatePlayerCountRecord(ip, v, now) => getRecord(records', ip) = Row(ip, v, now)]_vars

(***************************************************************************)
(* C10, amended: after updatePlayerCountRecord(ip, v, t) completes,        *)
(* getRecord(ip) answers (v, t) if a Record of ip existed before the call; *)
(* if none existed the call changes nothing and getRecord(ip) stays        *)
(* absent. The Records of other services are untouched, and repeating the  *)
(* same call leaves the store unchanged.                                   *)
(***************************************************************************)
C10_UpdateExistingOnly ==
  [][\A ip \in RegisteredIps, v \in UpdatedCounts :
       UpdatePlayerCountRecord(ip, v, now) =>
         /\ IF getRecord(records, ip).found
              THEN getRecord(records', ip) = Row(ip, v, now)
              ELSE records' = records /\ ~getRecord(records', ip).found
         /\ Len(records') = Len(records)
         /\ \A other \in RegisteredIps \ {ip} :
              getRecord(records', other) = getRecord(records, other)
         /\ lastOp'.again => records' = records]_vars

C10_Witness ==
  /\ lastOp.op = "updatePlayerCountRecord"
  /\ lastOp.again
  /\ getRecord(records, lastOp.ip) = Row(lastOp.ip, lastOp.v, lastOp.t)
  /\ Len(records) = 2

(***************************************************************************)
(* C1: from a reset attempt counter, the delay scheduled at the i-th       *)
(* consecutive close is min(i*i, 30) seconds: 1, 4, 9, 16, 25, 30, 30, ... *)
(* and it never exceeds 30.                                                *)
(***************************************************************************)
BackoffSequence == <<1, 4, 9, 16, 25, 30, 30, 30>>

ExpectedDelay(i) == IF i <= Len(BackoffSequence) THEN BackoffSequence[i] ELSE 30

C1_BackoffSequence ==
  [][OnClose => /\ reconnectDelaySeconds' = ExpectedDelay(closesSinceReset')
                /\ reconnectDelaySeconds' <= 30
                /\ reconnectDelaySeconds' >= 1]_vars

C1_Witness ==
  /\ closesSinceReset = 7
  /\ reconnectInterval
  /\ reconnectDelaySeconds = 30
  /\ webSocket = "undefined"

(***************************************************************************)
(* C2: between two consecutive closes the client sends the                 *)
(* 'requestHistoryGraph' token at most once, whatever messages arrive; on  *)
(* a connection that has sent none yet, an init with graphs visible sends  *)
(* exactly one.                                                            *)
(***************************************************************************)
C2_OneRequestPerConnection ==
  /\ [](sentOnConnection <= 1)
  /\ [][\A servers \in ServerSnapshots :
          (OnMessageInit([defined |-> TRUE, isGraphVisible |-> TRUE], servers)
             /\ sentOnConnection = 0) => sentOnConnection' = 1]_vars
  /\ [][OnClose => sentOnConnection' = 0 /\ ~hasRequestedHistoryGraph']_vars

C2_Witness ==
  /\ sentEarlier
  /\ webSocket = "open"
  /\ sentOnConnection = 1
  /\ taskIds = 2

(***************************************************************************)
(* C11: in every reachable state, after any interleaving of refresh cycles *)
(* (two of them suspended at their store calls at the same time), record   *)
(* inserts and record updates, players_record holds at most one Record per *)
(* service.                                                                *)
(***************************************************************************)
C11_OneRecordPerService ==
  \A ip \in RegisteredIps : Len(RowsOf(records, ip)) <= 1

(***************************************************************************)
(* C12: an updateServers entry whose index has no ServerRegistration is    *)
(* skipped: handlePing and updateServerStatus run for exactly the entries  *)
(* of the batch that are registered, a registration exists only while the  *)
(* public config of the current connection is defined, and no entry is     *)
(* applied on a connection before an init of that connection has           *)
(* registered its service.                                                 *)
(***************************************************************************)
C12_UnregisteredEntriesSkipped ==
  /\ [][\A n \in 0 .. NumServers :
          OnMessageUpdateServers(n) =>
            lastUpdated' = (0 .. (n - 1)) \cap serverRegistrations]_vars
  /\ [](lastUpdated \subseteq serverRegistrations)
  /\ [](serverRegistrations # {} => publicConfig.defined /\ taskIds > 0)

C12_Witness ==
  /\ lastBatch = NumServers
  /\ serverRegistrations = {0}
  /\ lastUpdated = {0}
  /\ sentEarlier

(***************************************************************************)
(* C13: in a refresh cycle the completion callback runs at most once, and  *)
(* not before every tracked service has had its recordData populated by    *)
(* that cycle.                                                             *)
(***************************************************************************)
C13_CallbackAfterAllProcessed ==
  \A c \in Cycles :
    /\ callbackCalls[c] <= 1
    /\ callbackCalls[c] >= 1 =>
         /\ lrProcessed[c] = 1 .. numTracked
         /\ \A i \in 1 .. numTracked : recordData[i].set

C13_Witness ==
  /\ numTracked = 2
  /\ callbackCalls[1] = 1
  /\ lrPc[2] = "insertRecord"
  /\ lrIdx[2] = 1

(***************************************************************************)
(* C14: a refresh cycle in which every store call succeeds eventually runs *)
(* its completion callback, exactly once, for every number of tracked      *)
(* services (none included) and in both backends.                          *)
(***************************************************************************)
C14_CallbackEventually ==
  /\ [](callbackCalls[1] <= 1)
  /\ (lrPc[1] # "idle") ~> (callbackCalls[1] = 1)

(***************************************************************************)
(* C16: when getRecord or getRecordLegacy fails for a service, the failure *)
(* reaches the caller of loadRecords (its promise rejects), no service     *)
(* later in the iteration order has been or is processed by the cycle, and *)
(* the cycle's completion callback has not run and never runs.             *)
(***************************************************************************)
C16_ReadFailureAborts ==
  \A c \in Cycles :
    lrError[c].call \in {"getRecord", "getRecordLegacy"} =>
      /\ lrPc[c] = "rejected"
      /\ callbackCalls[c] = 0
      /\ lrProcessed[c] \subseteq 1 .. lrIdx[c]

InsertStep(c) ==
  \/ InsertRecordDone(c)
  \/ /\ backend = "tabular"
     /\ lrPc[c] = "queries"
     /\ lrQueue[c] # <<>>
     /\ Head(lrQueue[c]).kind = "insertRecord"
     /\ QueryDone(c)

\* the registration the insert is for, and the fallback's answer it carries
InsertedIdx(c) == IF backend = "document" THEN lrIdx[c] ELSE Head(lrQueue[c]).idx

InsertedCount(c) ==
  IF backend = "document" THEN lrLegacy[c].playerCount ELSE Head(lrQueue[c]).playerCount

InsertedTimestamp(c) ==
  IF backend = "document" THEN lrLegacy[c].timestamp ELSE Head(lrQueue[c]).timestamp

C15_FallbackResultPersisted ==
  [][InsertStep(1) =>
       LET ip == ServerRegistrationIps[InsertedIdx(1)]
       IN /\ getRecord(records', ip) = Row(ip, InsertedCount(1), InsertedTimestamp(1))
          /\ recordData'[InsertedIdx(1)] =
               RecordData(InsertedCount(1), InsertedTimestamp(1))]_vars

\* as first stated: nothing is persisted when the fallback found nothing
C15_PersistedOnlyWhenFound ==
  [][InsertStep(1) =>
       LET ip == ServerRegistrationIps[InsertedIdx(1)]
       IN IF InsertedCount(1) # Null
            THEN /\ getRecord(records', ip) = Row(ip, InsertedCount(1), InsertedTimestamp(1))
                 /\ recordData'[InsertedIdx(1)] =
                      RecordData(InsertedCount(1), InsertedTimestamp(1))
            ELSE /\ ~getRecord(records', ip).found
                 /\ recordData'[InsertedIdx(1)] = RecordData(Null, Null)]_vars

C15_Witness ==
  /\ lrPc[1] = "done"
  /\ getRecord(records, ServerRegistrationIps[1]) = Row(ServerRegistrationIps[1], 9, 1000)
  /\ recordData[1] = RecordData(9, 1000)
  /\ getRecord(records, ServerRegistrationIps[2]) = Row(ServerRegistrationIps[2], Null, Null)
  /\ recordData[2] = RecordData(Null, Null)

(***************************************************************************)
(* C18: initOldPingsDelete invokes its readiness callback only when the    *)
(* startup prune pass has completed: in the state where the callback       *)
(* fires no Sample older than the startup cutoff is stored, the callback   *)
(* fires at most once, and never when the startup pass failed.             *)
(***************************************************************************)
C18_ReadyAfterStartupPass ==
  /\ [][readyCalls' # readyCalls =>
          /\ initPc = "startup" /\ initPc' = "done" /\ readyCalls' = 1
          /\ \A k \in 1 .. Len(pendingDeletes) :
               pendingDeletes[k].startup =>
                 Older(pings', pendingDeletes[k].oldestTimestamp) = <<>>]_vars
  /\ [](initPc = "failed" => readyCalls = 0)
  /\ [](initPc \in {"idle", "startup"} => readyCalls = 0)

C18_Witness ==
  /\ readyCalls = 1
  /\ cleanupInterval = [set |-> TRUE, value |-> -1]
  /\ lastOp.op = "deleteOldPings"
  /\ lastOp.removed >= 1
  /\ Len(pings) >= 1

C20_MigrationFailuresLoggedOnly ==
  backend = "tabular" =>
    eiRaised \in {"none", "CREATE TABLE pings", "CREATE TABLE players_record",
                  "CREATE INDEX timestamp_index"}

(***************************************************************************)
(* C21: ensureIndexes invokes its completion callback at most once per     *)
(* call, and only after every statement it issued has completed; in both   *)
(* backends.                                                               *)
(***************************************************************************)
C21_CallbackAfterStatements ==
  /\ eiCallbacks <= 1
  /\ eiCallbacks >= 1 => eiQueue = <<>> /\ eiPc = "done"

(***************************************************************************)
(* C22: the reconnect attempt counter is set to 0 by every onopen and by   *)
(* nothing else, and every close increments it by exactly 1; so the close  *)
(* of a channel that had opened schedules a delay of 1 second, however     *)
(* many failed attempts came before that channel opened.                   *)
(***************************************************************************)
C22_CounterResetOnlyOnOpen ==
  [][/\ (webSocket = "connecting" /\ webSocket' = "open") => reconnectDelayBase' = 0
     /\ liveSockets' < liveSockets => reconnectDelayBase' = reconnectDelayBase + 1
     /\ reconnectDelayBase' # reconnectDelayBase =>
          \/ webSocket = "connecting" /\ webSocket' = "open"
          \/ liveSockets' < liveSockets
     /\ (liveSockets' < liveSockets /\ webSocket = "open") =>
          reconnectDelaySeconds' = 1 /\ countdownStart' = 1]_vars

C22_Witness ==
  /\ attemptsBeforeOpen >= 3
  /\ reconnectDelayBase = 1
  /\ reconnectDelaySeconds = 1
  /\ activeTimers = 1

(***************************************************************************)
(* C23: in every reachable state of the client, under any sequence of      *)
(* opens, closes and timer ticks, at most one reconnect countdown timer is *)
(* active, at most one WebSocket is live or connecting, and a countdown    *)
(* timer and a live channel never exist together.                          *)
(***************************************************************************)
C23_OneTimerOrOneSocket ==
  /\ activeTimers <= 1
  /\ liveSockets <= 1
  /\ ~(activeTimers > 0 /\ liveSockets > 0)
  /\ (webSocket # "undefined") <=> (liveSockets = 1)
  /\ reconnectInterval <=> (activeTimers = 1)

C23_Witness ==
  /\ activeTimers = 1
  /\ liveSockets = 0
  /\ closesSinceReset >= 2
  /\ countdownTicks >= 1
  /\ sentEarlier

(***************************************************************************)
(* C24: a reconnect countdown started with delay d (1 <= d <= 30) counts   *)
(* down by one per tick; at its d-th tick, and not before, it clears its   *)
(* own timer and creates one WebSocket; it does not tick after that; and   *)
(* every close is followed by a new connection attempt.                    *)
(***************************************************************************)
C24_CountdownFiresOnce ==
  /\ [](activeTimers > 0 =>
          /\ countdownStart \in 1 .. 30
          /\ countdownTicks < countdownStart
          /\ reconnectDelaySeconds = countdownStart - countdownTicks)
  /\ [](countdownTicks <= countdownStart)
  /\ [][(appStarted /\ liveSockets' > liveSockets) =>
          /\ countdownTicks' = countdownStart
          /\ activeTimers' = activeTimers - 1
          /\ liveSockets' = liveSockets + 1]_vars
  /\ [][(countdownTicks' # countdownTicks /\ countdownTicks' # 0) =>
          /\ activeTimers > 0
          /\ countdownTicks' = countdownTicks + 1
          /\ (countdownTicks' < countdownStart => liveSockets' = liveSockets)]_vars
  /\ (activeTimers > 0) ~> (liveSockets = 1)

C24_Witness ==
  /\ countdownStart = 30
  /\ countdownTicks = 30
  /\ activeTimers = 0
  /\ webSocket = "connecting"

(***************************************************************************)
(* C25: a close, in whatever state the client is, leaves it disconnected:  *)
(* page not ready, publicConfig undefined, no registrations, the history   *)
(* request flag false, every periodic task started on the connection       *)
(* cleared and the task list empty, and a reconnect countdown running.     *)
(***************************************************************************)
C25_CloseDisconnects ==
  [][(liveSockets' < liveSockets) =>
       /\ ~pageReady'
       /\ publicConfig' = UndefinedConfig
       /\ serverRegistrations' = {}
       /\ ~hasRequestedHistoryGraph'
       /\ clearedTasks' = activeTasks
       /\ activeTasks' = 0
       /\ taskIds' = 0
       /\ webSocket' = "undefined"
       /\ reconnectInterval'
       /\ activeTimers' = 1
       /\ reconnectDelaySeconds' \in 1 .. 30]_vars

C25_Witness ==
  /\ clearedTasks = 2
  /\ activeTasks = 0
  /\ taskIds = 0
  /\ ~pageReady
  /\ ~publicConfig.defined
  /\ sentEarlier
  /\ activeTimers = 1
  /\ countdownTicks = 0

C27_OnlyQueriedServicesLoaded ==
  [][(lgPc = "query" /\ lgPc' = "done") =>
       \A i \in 1 .. Len(ServerRegistrationIps) :
          LET rows == RowsOf(getRecentPings(pings, lgStartTime, lgEndTime),
                             ServerRegistrationIps[i])
          IN IF rows = <<>>
               THEN graphPoints'[i] = graphPoints[i]
               ELSE graphPoints'[i] =
                      Points(lgStartTime, TimestampsOf(rows), PlayerCountsOf(rows))]_vars

C27_Witness ==
  /\ lgPc = "done"
  /\ lgCallbacks = 2
  /\ graphPoints[1].loaded
  /\ graphPoints[1].startTime < lgStartTime
  /\ ~graphPoints[2].loaded
  /\ RowsOf(getRecentPings(pings, lgStartTime, lgEndTime), TopstrixIp) = <<>>
  /\ RowsOf(getRecentPings(pings, lgStartTime, lgEndTime), "unlisted.example.net") # <<>>

(***************************************************************************)
(* C28: the time tracker is given the timestamps of the service of the     *)
(* first returned row, whatever the timestamps of the other services;      *)
(* with no rows it is not called; the callback runs in both cases.         *)
(***************************************************************************)
C28_TrackerGetsFirstService ==
  [][(lgPc = "query" /\ lgPc' = "done") =>
       LET pingData == getRecentPings(pings, lgStartTime, lgEndTime)
       IN /\ lgCallbacks' = lgCallbacks + 1
          /\ IF pingData = <<>>
               THEN timeTrackerPoints' = timeTrackerPoints
               ELSE timeTrackerPoints' =
                      Points(lgStartTime,
                             TimestampsOf(RowsOf(pingData, pingData[1].ip)), <<>>)]_vars

C28_Witness ==
  /\ lgPc = "done"
  /\ timeTrackerPoints.loaded
  /\ graphPoints[1].loaded
  /\ timeTrackerPoints.startTime = lgStartTime
  /\ graphPoints[1].startTime = lgStartTime
  /\ graphPoints[1].timestamps # timeTrackerPoints.timestamps
  /\ getRecentPings(pings, lgStartTime, lgEndTime)[1].ip = "unlisted.example.net"

====
